---- MODULE Spec2Model ----
(***************************************************************************)
(* The /compress-pdf handler of app.py (compress_pdf): temporary files,    *)
(* the Ghostscript argument list, the child process, the response and the  *)
(* cleanup in the finally block, for concurrently served requests.         *)
(***************************************************************************)
EXTENDS Integers, Sequences, FiniteSets, TLC

(***************************************************************************)
(* Bounds of the model.                                                    *)
(***************************************************************************)
NumReq == 2        \* requests served concurrently
NumNames == 2      \* random name stems mkstemp can draw, per suffix
MaxLen == 2        \* longest document (in bytes) a request carries

Req == 1..NumReq

(***************************************************************************)
(* Bytes and base64 (base64.b64decode, line 41; base64.b64encode, line     *)
(* 183).  A base64 text is a sequence of alphabet indices 0..63, with      *)
(* PadChar for '='.                                                        *)
(***************************************************************************)
ByteVals == {37, 255}
PadChar == 64

RECURSIVE SeqsUpTo(_, _)
SeqsUpTo(S, n) ==
    IF n = 0 THEN {<<>>}
    ELSE LET shorter == SeqsUpTo(S, n - 1)
         IN  shorter \cup {Append(s, x) : s \in {t \in shorter : Len(t) = n - 1}, x \in S}

RECURSIVE b64encode(_)
b64encode(b) ==
    IF Len(b) = 0 THEN <<>>
    ELSE IF Len(b) = 1
         THEN <<b[1] \div 4, (b[1] % 4) * 16, PadChar, PadChar>>
    ELSE IF Len(b) = 2
         THEN <<b[1] \div 4, (b[1] % 4) * 16 + b[2] \div 16, (b[2] % 16) * 4, PadChar>>
    ELSE <<b[1] \div 4, (b[1] % 4) * 16 + b[2] \div 16,
           (b[2] % 16) * 4 + b[3] \div 64, b[3] % 64>>
         \o b64encode(SubSeq(b, 4, Len(b)))

\* binascii.a2b_base64 in its default (non-strict) mode, one character at a
\* time: quad_pos is the position in the current group of four, leftchar the
\* bits carried over, pads the '=' seen in a row, out the bytes so far.
RECURSIVE a2b_base64(_, _, _, _, _, _)
a2b_base64(s, i, quad_pos, leftchar, pads, out) ==
    IF i > Len(s)
    THEN IF quad_pos # 0 THEN [ok |-> FALSE, bytes |-> <<>>]
                         ELSE [ok |-> TRUE, bytes |-> out]
    ELSE LET ch == s[i] IN
         IF ch = PadChar
         THEN IF quad_pos >= 2 /\ quad_pos + pads + 1 >= 4
              THEN [ok |-> TRUE, bytes |-> out]
              ELSE a2b_base64(s, i + 1, quad_pos, leftchar,
                              IF quad_pos >= 2 THEN pads + 1 ELSE pads, out)
         ELSE IF ch > PadChar
         THEN a2b_base64(s, i + 1, quad_pos, leftchar, pads, out)
         ELSE CASE quad_pos = 0 ->
                     a2b_base64(s, i + 1, 1, ch, 0, out)
                [] quad_pos = 1 ->
                     a2b_base64(s, i + 1, 2, ch % 16, 0,
                                Append(out, leftchar * 4 + ch \div 16))
                [] quad_pos = 2 ->
                     a2b_base64(s, i + 1, 3, ch % 4, 0,
                                Append(out, leftchar * 16 + ch \div 4))
                [] OTHER ->
                     a2b_base64(s, i + 1, 0, 0, 0,
                                Append(out, leftchar * 64 + ch))

b64decode(s) == a2b_base64(s, 1, 0, 0, 0, <<>>)

\* len(...) / 1024 as the fraction <<numerator, denominator>>
KiloBytes(n) == <<n, 1024>>

(***************************************************************************)
(* Text: a string is a sequence of one-character strings (longer literals  *)
(* stand for runs of non-blank, non-dot characters).                       *)
(***************************************************************************)
Whitespace == {" ", "\n"}

RECURSIVE lstrip(_)
lstrip(s) == IF s # <<>> /\ Head(s) \in Whitespace THEN lstrip(Tail(s)) ELSE s

RECURSIVE rstrip(_)
rstrip(s) ==
    IF s # <<>> /\ s[Len(s)] \in Whitespace THEN rstrip(SubSeq(s, 1, Len(s) - 1)) ELSE s

strip(s) == rstrip(lstrip(s))

\* os.path.splitext: split at the last dot, unless only dots precede it
splitext(p) ==
    LET dots == {i \in 1..Len(p) : p[i] = "."}
        last == IF dots = {} THEN 0 ELSE CHOOSE i \in dots : \A j \in dots : j <= i
    IN  IF last > 0 /\ \E j \in 1..(last - 1) : p[j] # "."
        THEN <<SubSeq(p, 1, last - 1), SubSeq(p, last, Len(p))>>
        ELSE <<p, <<>>>>

\* str(x) inside an f-string
str(x) == <<x>>

(***************************************************************************)
(* Temporary paths: tempfile.NamedTemporaryFile(delete=False, suffix=...)  *)
(* names a file "tmp" + random stem + suffix and creates it exclusively.   *)
(***************************************************************************)
InSuffix == ".pdf"
OutSuffix == "_compressed.pdf"
Paths == [stem : 1..NumNames, suffix : {InSuffix, OutSuffix}]
None == [stem |-> 0, suffix |-> ""]
NoFile == [exists |-> FALSE, data |-> <<>>]

\* a create that is not exclusive would take any name of the suffix
mkstemp_noexcl(fsys, suffix) == {p \in Paths : p.suffix = suffix}
\* the names an exclusive create (O_EXCL) can succeed with
mkstemp(fsys, suffix) == {p \in Paths : p.suffix = suffix /\ ~fsys[p].exists}

(***************************************************************************)
(* The Ghostscript argument list.  An argument is a record: a switch has   *)
(* its text in opt, the output switch carries the output path, and the     *)
(* input file is the bare path (opt empty).                                *)
(***************************************************************************)
Flag(s) == [opt |-> s, path |-> None]
OutputArg(p) == [opt |-> "-sOutputFile=", path |-> p]
InputArg(p) == [opt |-> "", path |-> p]

BaseCommand(temp_input_path, temp_output_path) ==
    << Flag("gs"),
       Flag("-sDEVICE=pdfwrite"),
       Flag("-dCompatibilityLevel=1.4"),
       Flag("-dNOPAUSE"),
       Flag("-dQUIET"),
       Flag("-dBATCH"),
       Flag("-dSAFER"),
       Flag("-dEmbedAllFonts=true"),
       Flag("-dSubsetFonts=true"),
       Flag("-dCompressFonts=true"),
       Flag("-dOptimize=true"),
       Flag("-dFastWebView=true"),
       Flag("-dColorConversionStrategy=/LeaveAlone"),
       Flag("-dGrayImageDownsampleType=/Bicubic"),
       Flag("-dColorImageDownsampleType=/Bicubic"),
       Flag("-dMonoImageDownsampleType=/Bicubic"),
       OutputArg(temp_output_path),
       InputArg(temp_input_path) >>

ExtremeBlock ==
    << Flag("-sProcessColorModel=DeviceGray"),
       Flag("-dDownsampleColorImages=true"),
       Flag("-dDownsampleGrayImages=true"),
       Flag("-dDownsampleMonoImages=true"),
       Flag("-dColorImageResolution=15"),
       Flag("-dGrayImageResolution=15"),
       Flag("-dMonoImageResolution=30"),
       Flag("-dColorImageQuality=0"),
       Flag("-dGrayImageQuality=0"),
       Flag("-dColorImageDownsampleType=/Average"),
       Flag("-dGrayImageDownsampleType=/Average"),
       Flag("-dMonoImageDownsampleType=/Average"),
       Flag("-dUseFlateCompression=true"),
       Flag("-dEncodeColorImages=true"),
       Flag("-dEncodeGrayImages=true"),
       Flag("-dEncodeMonoImages=true"),
       Flag("-dAutoFilterColorImages=true"),
       Flag("-dAutoFilterGrayImages=true"),
       Flag("-dColorImageFilter=/DCTEncode"),
       Flag("-dGrayImageFilter=/DCTEncode"),
       Flag("-dPreserveEPSInfo=false"),
       Flag("-dPreserveOPIComments=false"),
       Flag("-dPreserveOverprintSettings=false"),
       Flag("-dDetectDuplicateImages=true"),
       Flag("-dMaxSubsetPct=10") >>

LessBlock ==
    << Flag("-dDownsampleColorImages=true"),
       Flag("-dDownsampleGrayImages=true"),
       Flag("-dDownsampleMonoImages=true"),
       Flag("-dColorImageResolution=200"),
       Flag("-dGrayImageResolution=200"),
       Flag("-dMonoImageResolution=400"),
       Flag("-dColorImageQuality=80"),
       Flag("-dGrayImageQuality=80"),
       Flag("-dColorImageDownsampleType=/Bicubic"),
       Flag("-dGrayImageDownsampleType=/Bicubic"),
       Flag("-dMonoImageDownsampleType=/Bicubic"),
       Flag("-dUseFlateCompression=true"),
       Flag("-dEncodeColorImages=true"),
       Flag("-dEncodeGrayImages=true"),
       Flag("-dEncodeMonoImages=true"),
       Flag("-dAutoFilterColorImages=true"),
       Flag("-dAutoFilterGrayImages=true"),
       Flag("-dColorImageFilter=/DCTEncode"),
       Flag("-dGrayImageFilter=/DCTEncode"),
       Flag("-dMaxSubsetPct=100") >>

RecommendedBlock ==
    << Flag("-dDownsampleColorImages=true"),
       Flag("-dDownsampleGrayImages=true"),
       Flag("-dDownsampleMonoImages=true"),
       Flag("-dColorImageResolution=100"),
       Flag("-dGrayImageResolution=100"),
       Flag("-dMonoImageResolution=200"),
       Flag("-dColorImageQuality=40"),
       Flag("-dGrayImageQuality=40"),
       Flag("-dColorImageDownsampleType=/Bicubic"),
       Flag("-dGrayImageDownsampleType=/Bicubic"),
       Flag("-dMonoImageDownsampleType=/Bicubic"),
       Flag("-dUseFlateCompression=true"),
       Flag("-dEncodeColorImages=true"),
       Flag("-dEncodeGrayImages=true"),
       Flag("-dEncodeMonoImages=true"),
       Flag("-dAutoFilterColorImages=true"),
       Flag("-dAutoFilterGrayImages=true"),
       Flag("-dColorImageFilter=/DCTEncode"),
       Flag("-dGrayImageFilter=/DCTEncode"),
       Flag("-dMaxSubsetPct=50") >>

\* a resolution with no fallback: nothing appended for an unknown tier
TierBlock_strict(compression_level_hint) ==
    IF compression_level_hint = "extreme" THEN ExtremeBlock
    ELSE IF compression_level_hint = "less" THEN LessBlock
    ELSE IF compression_level_hint = "recommended" THEN RecommendedBlock
    ELSE <<>>
\* the if / elif / else on compression_level_hint
TierBlock(compression_level_hint) ==
    IF compression_level_hint = "extreme" THEN ExtremeBlock
    ELSE IF compression_level_hint = "less" THEN LessBlock
    ELSE RecommendedBlock

\* ghostscript_command after the extend(...) of the chosen branch
GhostscriptCommand(temp_input_path, temp_output_path, compression_level_hint) ==
    BaseCommand(temp_input_path, temp_output_path) \o TierBlock(compression_level_hint)

(***************************************************************************)
(* What Ghostscript makes of an argument list: it takes its arguments left *)
(* to right, so a file is processed under the switches that precede it.    *)
(***************************************************************************)
InputIndexes(cmd) == {i \in 1..Len(cmd) : cmd[i].opt = ""}
InputPaths(cmd) == {cmd[i].path : i \in InputIndexes(cmd)}
OutputPaths(cmd) == {cmd[i].path : i \in {j \in 1..Len(cmd) : cmd[j].opt = "-sOutputFile="}}

(***************************************************************************)
(* Requests.  The JSON body is a function from the keys present to their   *)
(* values; data.get(k, d) is Get.                                          *)
(***************************************************************************)
Get(d, k, default) == IF k \in DOMAIN d THEN d[k] ELSE default

NoKeys == [k \in {} |-> 0]
Malformed == <<9, 16>>                      \* two characters, no padding
Spaced == <<9, 16, 65, PadChar, PadChar>>   \* a newline inside a valid text
Base64Texts == {b64encode(b) : b \in SeqsUpTo(ByteVals, MaxLen)} \cup {Malformed, Spaced}
FileNames == {<<"report", ".", "v2", ".", "pdf">>}
Levels == {"extreme", "less", "recommended", "", "unknown-garbage-string"}

AllRequests ==
    { P @@ N @@ L :
        P \in {NoKeys} \cup {("pdfFileBase64" :> t) : t \in Base64Texts},
        N \in {NoKeys} \cup {("fileName" :> n) : n \in FileNames},
        L \in {NoKeys} \cup {("compressionLevel" :> l) : l \in Levels} }
SmallRequests == { ("pdfFileBase64" :> b64encode(<<37>>)) }

\* what the child can leave behind: an output of any length up to one byte
\* more than the longest input, and a diagnostic text
AllOutputs == SeqsUpTo({255}, MaxLen + 1)
SmallOutputs == {<<37, 255>>}
AllErrors == {<<>>, <<"e", "\n">>}
ExitCodes == {0, 1}

\* What surrounds the handler in a specification: the request bodies that
\* arrive, what the child can leave and return, and the steps at which the
\* host can fail the handler ("create": no temporary file can be created;
\* "write": write() raises; "close": the flush at close raises; "notfound":
\* there is no gs executable).
AllFaults == {"create", "write", "close", "notfound"}
FullEnv == [requests |-> AllRequests, outputs |-> AllOutputs, errors |-> AllErrors,
            codes |-> ExitCodes, faults |-> AllFaults]
SmallEnv == [requests |-> SmallRequests, outputs |-> SmallOutputs, errors |-> {<<>>},
             codes |-> {0}, faults |-> {"write"}]

(***************************************************************************)
(* State.                                                                  *)
(***************************************************************************)
VARIABLES
    pc,                       \* where each request's handler stands
    data,                     \* request.get_json()
    pdf_bytes, original_filename, compression_level_hint,
    temp_input_pdf,           \* the name of the file line 44 created
    temp_output_pdf,          \* the name of the file line 48 created
    temp_input_path, temp_output_path,
    ghostscript_command,
    result,                   \* the child: state, returncode, stderr
    response,                 \* what the handler returns: status and JSON
    log,                      \* each request's file and process events, in order
    fs                        \* the temporary directory: path -> file

vars == <<pc, data, pdf_bytes, original_filename, compression_level_hint,
          temp_input_pdf, temp_output_pdf, temp_input_path, temp_output_path,
          ghostscript_command, result, response, log, fs>>

NoChild == [state |-> "none", returncode |-> 0, stderr |-> <<>>]
NoResponse == [status |-> 0, json |-> NoKeys]
Event(e, p) == [ev |-> e, path |-> p]

Init ==
    /\ pc = [r \in Req |-> "idle"]
    /\ data = [r \in Req |-> NoKeys]
    /\ pdf_bytes = [r \in Req |-> <<>>]
    /\ original_filename = [r \in Req |-> <<>>]
    /\ compression_level_hint = [r \in Req |-> ""]
    /\ temp_input_pdf = [r \in Req |-> None]
    /\ temp_output_pdf = [r \in Req |-> None]
    /\ temp_input_path = [r \in Req |-> None]
    /\ temp_output_path = [r \in Req |-> None]
    /\ ghostscript_command = [r \in Req |-> <<>>]
    /\ result = [r \in Req |-> NoChild]
    /\ response = [r \in Req |-> NoResponse]
    /\ log = [r \in Req |-> <<>>]
    /\ fs = [p \in Paths |-> NoFile]

(***************************************************************************)
(* Responses.                                                              *)
(***************************************************************************)
\* lines 200-202: except Exception as e
ErrorResponse(e) ==
    [status |-> 500, json |-> [error |-> <<"Failed to compress PDF:", " ">> \o e]]

\* line 35
NoDataResponse == [status |-> 400, json |-> [error |-> <<"No PDF file data provided">>]]

\* lines 168-173: the exception raised on a nonzero return code
ToolFailureMessage(returncode, stderr) ==
    IF stderr # <<>>
    THEN <<"PDF compression failed:", " ">> \o strip(stderr)
    ELSE <<"PDF compression failed with exit code", " ", ToString(returncode), ".", " ",
           "No detailed error from Ghostscript", ".">>

\* str(FileNotFoundError) of subprocess.run
NotFoundMessage == <<"[Errno 2] No such file or directory:", " ", "'gs'">>
OSErrorMessage == <<"[Errno 28] No space left on device">>
PaddingMessage == <<"Incorrect padding">>

\* a response that falls back to the original when the output is larger
SuccessResponse_fallback(r, compressed_pdf_bytes) ==
    LET ne == splitext(original_filename[r])
        kept == IF Len(compressed_pdf_bytes) > Len(pdf_bytes[r])
                THEN pdf_bytes[r] ELSE compressed_pdf_bytes
    IN  [status |-> 200,
         json |-> [body |-> b64encode(kept),
                   isBase64Encoded |-> TRUE,
                   fileName |-> ne[1] \o <<"_compressed_">>
                                  \o str(compression_level_hint[r]) \o ne[2],
                   originalSize |-> KiloBytes(Len(pdf_bytes[r])),
                   compressedSize |-> KiloBytes(Len(kept)),
                   compressionLevelApplied |-> compression_level_hint[r]]]
\* lines 180-198, with compressed_pdf_bytes just read from the output path
SuccessResponse(r, compressed_pdf_bytes) ==
    LET ne == splitext(original_filename[r])
    IN  [status |-> 200,
         json |-> [body |-> b64encode(compressed_pdf_bytes),
                   isBase64Encoded |-> TRUE,
                   fileName |-> ne[1] \o <<"_compressed_">>
                                  \o str(compression_level_hint[r]) \o ne[2],
                   originalSize |-> KiloBytes(Len(pdf_bytes[r])),
                   compressedSize |-> KiloBytes(Len(compressed_pdf_bytes)),
                   compressionLevelApplied |-> compression_level_hint[r]]]

\* an exception reaches the except clause: the error response is built, and
\* the finally block is what remains
Raise(r, e, events) ==
    /\ response' = [response EXCEPT ![r] = ErrorResponse(e)]
    /\ log' = [log EXCEPT ![r] = @ \o events \o <<Event("respond", None)>>]
    /\ pc' = [pc EXCEPT ![r] = "unlink_in"]

(***************************************************************************)
(* The handler, one action per step of compress_pdf.                       *)
(***************************************************************************)
\* lines 33-41: read the JSON body, the three fields, decode the document
Receive(r, env) ==
    /\ pc[r] = "idle"
    /\ \E d \in env.requests :
         /\ data' = [data EXCEPT ![r] = d]
         /\ IF DOMAIN d = {} \/ "pdfFileBase64" \notin DOMAIN d
            THEN /\ response' = [response EXCEPT ![r] = NoDataResponse]
                 /\ log' = [log EXCEPT ![r] = @ \o <<Event("respond", None)>>]
                 /\ pc' = [pc EXCEPT ![r] = "unlink_in"]
                 /\ UNCHANGED <<pdf_bytes, original_filename, compression_level_hint>>
            ELSE /\ original_filename' =
                        [original_filename EXCEPT
                            ![r] = Get(d, "fileName", <<"document", ".", "pdf">>)]
                 /\ compression_level_hint' =
                        [compression_level_hint EXCEPT
                            ![r] = Get(d, "compressionLevel", "recommended")]
                 /\ LET decoded == b64decode(d["pdfFileBase64"]) IN
                    IF decoded.ok
                    THEN /\ pdf_bytes' = [pdf_bytes EXCEPT ![r] = decoded.bytes]
                         /\ pc' = [pc EXCEPT ![r] = "create_in"]
                         /\ UNCHANGED <<response, log>>
                    ELSE /\ Raise(r, PaddingMessage, <<>>)
                         /\ UNCHANGED pdf_bytes
    /\ UNCHANGED <<temp_input_pdf, temp_output_pdf, temp_input_path, temp_output_path,
                   ghostscript_command, result, fs>>

\* line 44: NamedTemporaryFile(delete=False, suffix=".pdf") creates the file,
\* or raises when no name can be had or the directory cannot be written
CreateInput(r, env) ==
    /\ pc[r] = "create_in"
    /\ \/ \E p \in mkstemp(fs, InSuffix) :
            /\ fs' = [fs EXCEPT ![p] = [exists |-> TRUE, data |-> <<>>]]
            /\ temp_input_pdf' = [temp_input_pdf EXCEPT ![r] = p]
            /\ log' = [log EXCEPT ![r] = Append(@, Event("create", p))]
            /\ pc' = [pc EXCEPT ![r] = "write_in"]
            /\ UNCHANGED response
       \/ /\ "create" \in env.faults \/ mkstemp(fs, InSuffix) = {}
          /\ Raise(r, OSErrorMessage, <<>>)
          /\ UNCHANGED <<fs, temp_input_pdf>>
    /\ UNCHANGED <<data, pdf_bytes, original_filename, compression_level_hint,
                   temp_output_pdf, temp_input_path, temp_output_path,
                   ghostscript_command, result>>

\* lines 45-46 and the end of the with block: write the bytes, take the
\* name, close.  write() can raise (before the name is taken), and so can
\* the flush at close (after it was taken); either way the file stays.
WriteInput(r, env) ==
    /\ pc[r] = "write_in"
    /\ \/ /\ fs' = [fs EXCEPT ![temp_input_pdf[r]].data = pdf_bytes[r]]
          /\ temp_input_path' = [temp_input_path EXCEPT ![r] = temp_input_pdf[r]]
          /\ log' = [log EXCEPT ![r] = Append(@, Event("close", temp_input_pdf[r]))]
          /\ pc' = [pc EXCEPT ![r] = "create_out"]
          /\ UNCHANGED response
       \/ /\ "write" \in env.faults
          /\ Raise(r, OSErrorMessage, <<>>)
          /\ UNCHANGED <<fs, temp_input_path>>
       \/ /\ "close" \in env.faults
          /\ temp_input_path' = [temp_input_path EXCEPT ![r] = temp_input_pdf[r]]
          /\ Raise(r, OSErrorMessage, <<>>)
          /\ UNCHANGED fs
    /\ UNCHANGED <<data, pdf_bytes, original_filename, compression_level_hint,
                   temp_input_pdf, temp_output_pdf, temp_output_path,
                   ghostscript_command, result>>

\* lines 48-51: the output file, created empty, its name taken, closed
CreateOutput(r, env) ==
    /\ pc[r] = "create_out"
    /\ \/ \E p \in mkstemp(fs, OutSuffix) :
            /\ fs' = [fs EXCEPT ![p] = [exists |-> TRUE, data |-> <<>>]]
            /\ temp_output_pdf' = [temp_output_pdf EXCEPT ![r] = p]
            /\ temp_output_path' = [temp_output_path EXCEPT ![r] = p]
            /\ log' = [log EXCEPT ![r] = @ \o <<Event("create", p), Event("close", p)>>]
            /\ pc' = [pc EXCEPT ![r] = "launch"]
            /\ UNCHANGED response
       \/ /\ "create" \in env.faults \/ mkstemp(fs, OutSuffix) = {}
          /\ Raise(r, OSErrorMessage, <<>>)
          /\ UNCHANGED <<fs, temp_output_pdf, temp_output_path>>
    /\ UNCHANGED <<data, pdf_bytes, original_filename, compression_level_hint,
                   temp_input_pdf, temp_input_path, ghostscript_command, result>>

\* lines 53-166: build the command and start the child; subprocess.run
\* raises FileNotFoundError when there is no gs on the host
Launch(r, env) ==
    /\ pc[r] = "launch"
    /\ ghostscript_command' =
           [ghostscript_command EXCEPT
               ![r] = GhostscriptCommand(temp_input_path[r], temp_output_path[r],
                                         compression_level_hint[r])]
    /\ \/ /\ result' = [result EXCEPT ![r].state = "running"]
          /\ log' = [log EXCEPT ![r] = Append(@, Event("invoke", None))]
          /\ pc' = [pc EXCEPT ![r] = "wait"]
          /\ UNCHANGED response
       \/ /\ "notfound" \in env.faults
          /\ result' = [result EXCEPT ![r].state = "notfound"]
          /\ Raise(r, NotFoundMessage, <<>>)
    /\ UNCHANGED <<data, pdf_bytes, original_filename, compression_level_hint,
                   temp_input_pdf, temp_output_pdf, temp_input_path, temp_output_path, fs>>

\* the child: it reads the input files of its argument list, writes the
\* output file its argument list names, and exits with a code and a
\* diagnostic text.  subprocess.run (line 166, no timeout) returns then.
ToolExit(r, env) ==
    /\ pc[r] = "wait"
    /\ result[r].state = "running"
    /\ \E rc \in env.codes, err \in env.errors, out \in env.outputs :
         LET cmd == ghostscript_command[r]
             ins == InputPaths(cmd)
             outs == OutputPaths(cmd)
         IN  /\ fs' = [p \in Paths |->
                          IF p \in outs THEN [exists |-> TRUE, data |-> out] ELSE fs[p]]
             /\ result' = [result EXCEPT
                              ![r] = [state |-> "exited", returncode |-> rc, stderr |-> err]]
             /\ log' = [log EXCEPT
                           ![r] = @ \o <<Event("tool_read", CHOOSE p \in ins : TRUE),
                                         Event("tool_write", CHOOSE p \in outs : TRUE),
                                         Event("exit", None)>>]
    /\ pc' = [pc EXCEPT ![r] = "check"]
    /\ UNCHANGED <<data, pdf_bytes, original_filename, compression_level_hint,
                   temp_input_pdf, temp_output_pdf, temp_input_path, temp_output_path,
                   ghostscript_command, response>>

\* a handler that reads the output path whatever the return code
CheckResult_always_read(r) ==
    /\ pc[r] = "check"
    /\ response' = [response EXCEPT
                       ![r] = SuccessResponse(r, fs[temp_output_path[r]].data)]
    /\ log' = [log EXCEPT ![r] = @ \o <<Event("read", temp_output_path[r]),
                                        Event("respond", None)>>]
    /\ pc' = [pc EXCEPT ![r] = "unlink_in"]
    /\ UNCHANGED <<data, pdf_bytes, original_filename, compression_level_hint,
                   temp_input_pdf, temp_output_pdf, temp_input_path, temp_output_path,
                   ghostscript_command, result, fs>>
\* lines 168-198: a nonzero return code raises; otherwise the output path is
\* read and the success response built
CheckResult(r) ==
    /\ pc[r] = "check"
    /\ IF result[r].returncode # 0
       THEN Raise(r, ToolFailureMessage(result[r].returncode, result[r].stderr), <<>>)
       ELSE /\ response' = [response EXCEPT
                               ![r] = SuccessResponse(r, fs[temp_output_path[r]].data)]
            /\ log' = [log EXCEPT ![r] = @ \o <<Event("read", temp_output_path[r]),
                                                Event("respond", None)>>]
            /\ pc' = [pc EXCEPT ![r] = "unlink_in"]
    /\ UNCHANGED <<data, pdf_bytes, original_filename, compression_level_hint,
                   temp_input_pdf, temp_output_pdf, temp_input_path, temp_output_path,
                   ghostscript_command, result, fs>>

\* lines 205-206
UnlinkInput(r) ==
    /\ pc[r] = "unlink_in"
    /\ IF temp_input_path[r] # None /\ fs[temp_input_path[r]].exists
       THEN /\ fs' = [fs EXCEPT ![temp_input_path[r]] = NoFile]
            /\ log' = [log EXCEPT ![r] = Append(@, Event("unlink", temp_input_path[r]))]
       ELSE UNCHANGED <<fs, log>>
    /\ pc' = [pc EXCEPT ![r] = "unlink_out"]
    /\ UNCHANGED <<data, pdf_bytes, original_filename, compression_level_hint,
                   temp_input_pdf, temp_output_pdf, temp_input_path, temp_output_path,
                   ghostscript_command, result, response>>

\* lines 207-208, after which the handler has returned
UnlinkOutput(r) ==
    /\ pc[r] = "unlink_out"
    /\ IF temp_output_path[r] # None /\ fs[temp_output_path[r]].exists
       THEN /\ fs' = [fs EXCEPT ![temp_output_path[r]] = NoFile]
            /\ log' = [log EXCEPT ![r] = Append(@, Event("unlink", temp_output_path[r]))]
       ELSE UNCHANGED <<fs, log>>
    /\ pc' = [pc EXCEPT ![r] = "done"]
    /\ UNCHANGED <<data, pdf_bytes, original_filename, compression_level_hint,
                   temp_input_pdf, temp_output_pdf, temp_input_path, temp_output_path,
                   ghostscript_command, result, response>>

(***************************************************************************)
(* Specifications.  Spec serves NumReq requests concurrently, on a host    *)
(* where the tool runs and succeeds and only write() can fail; SpecOne     *)
(* serves one request, with every body, output, diagnostic and fault.      *)
(***************************************************************************)
HandlerStep(r, env) ==
    \/ Receive(r, env)
    \/ CreateInput(r, env)
    \/ WriteInput(r, env)
    \/ CreateOutput(r, env)
    \/ Launch(r, env)
    \/ CheckResult(r)
    \/ UnlinkInput(r)
    \/ UnlinkOutput(r)

Next == \E r \in Req : HandlerStep(r, SmallEnv) \/ ToolExit(r, SmallEnv)

Spec == Init /\ [][Next]_vars

NextOne == HandlerStep(1, FullEnv) \/ ToolExit(1, FullEnv)

SpecOne == Init /\ [][NextOne]_vars

\* The handler's thread keeps running; nothing obliges the child to exit.
FairSpecOne == SpecOne /\ WF_vars(HandlerStep(1, FullEnv))

(***************************************************************************)
(* Vocabulary of the properties.                                           *)
(***************************************************************************)
Returned(r) == pc[r] = "done"
Responded(r) == response[r].status # 0
Created(r) == {temp_input_pdf[r], temp_output_pdf[r]} \ {None}
Live(r) == pc[r] \notin {"idle", "done"}
Indexes(r, e) == {i \in DOMAIN log[r] : log[r][i].ev = e}
Before(r, e, i) == \E j \in Indexes(r, e) : j < i
Unlinked(r, p) == \E i \in Indexes(r, "unlink") : log[r][i].path = p
Held(r) == {p \in Created(r) : ~Unlinked(r, p)}
Contains(s, t) == \E i \in 0..(Len(s) - Len(t)) : SubSeq(s, i + 1, i + Len(t)) = t
ToolFailed(r) == result[r].state = "exited" /\ result[r].returncode # 0
ToolSucceeded(r) == result[r].state = "exited" /\ result[r].returncode = 0
Recognized == {"extreme", "less", "recommended"}
\* what a client can tell a response by without reading its message
MachineReadable(resp) == <<resp.status, DOMAIN resp.json>>

(***************************************************************************)
(* C1: when the handler has returned, whatever the exit path, no temporary *)
(* input or output file that this invocation created is left on storage.   *)
(***************************************************************************)
C1_NoTempFileRemains ==
    \A r \in Req : Returned(r) => \A p \in Created(r) : ~fs[p].exists

(***************************************************************************)
(* C2: after a nonzero exit of the tool the response is an error whose     *)
(* detail holds the tool's diagnostic text verbatim, the output path was   *)
(* not read, and the response has no document body.                        *)
(***************************************************************************)
C2_ToolFailureVerbatim ==
    \A r \in Req :
        (ToolFailed(r) /\ Responded(r)) =>
            /\ response[r].status = 500
            /\ DOMAIN response[r].json = {"error"}
            /\ Indexes(r, "read") = {}
            /\ Contains(response[r].json.error, result[r].stderr)

(***************************************************************************)
(* C3: the response to a missing tool executable can be told, by its       *)
(* machine-readable part, from the responses the handler gives to a        *)
(* nonzero exit of the tool and to any other exception.                    *)
(***************************************************************************)
C3_ToolUnavailableDistinct ==
    \A r \in Req :
        (result[r].state = "notfound" /\ Responded(r)) =>
            \A other \in {ErrorResponse(ToolFailureMessage(1, <<"e", "\n">>)),
                          ErrorResponse(OSErrorMessage),
                          ErrorResponse(PaddingMessage)} :
                MachineReadable(response[r]) # MachineReadable(other)

(***************************************************************************)
(* C4: tier resolution is total and a function of the tier alone: every    *)
(* request that reaches the tool invocation, whatever its tier (absent,    *)
(* empty and unrecognized included), has the base arguments followed by    *)
(* exactly one of the three tier blocks: the extreme block for "extreme",  *)
(* the less block for "less", the recommended block for anything else.     *)
(***************************************************************************)
C4_TierResolution ==
    /\ ExtremeBlock # LessBlock /\ LessBlock # RecommendedBlock
    /\ ExtremeBlock # RecommendedBlock
    /\ \A r \in Req :
         result[r].state # "none" =>
            LET cmd == ghostscript_command[r]
                base == BaseCommand(temp_input_path[r], temp_output_path[r])
                block == SubSeq(cmd, Len(base) + 1, Len(cmd))
                tier == compression_level_hint[r]
            IN  /\ Len(cmd) > Len(base)
                /\ SubSeq(cmd, 1, Len(base)) = base
                /\ block \in {ExtremeBlock, LessBlock, RecommendedBlock}
                /\ tier = "extreme" => block = ExtremeBlock
                /\ tier = "less" => block = LessBlock
                /\ tier \notin {"extreme", "less"} => block = RecommendedBlock

C4_Witness ==
    \E r \in Req :
        /\ result[r].state = "running"
        /\ "compressionLevel" \in DOMAIN data[r]
        /\ data[r]["compressionLevel"] = "unknown-garbage-string"
        /\ ghostscript_command[r][Len(ghostscript_command[r])] = Flag("-dMaxSubsetPct=50")

(***************************************************************************)
(* C5: a successful response to a request that named an unrecognized tier  *)
(* does not echo the unrecognized string as the applied tier: it names the *)
(* balanced tier that was used, or carries a field that a response to a    *)
(* request for the balanced tier does not have.                            *)
(***************************************************************************)
C5_NormalizationReported ==
    \A r \in Req :
        ( /\ response[r].status = 200
          /\ "compressionLevel" \in DOMAIN data[r]
          /\ data[r]["compressionLevel"] \notin Recognized )
        => LET j == response[r].json IN
           /\ j.compressionLevelApplied # data[r]["compressionLevel"]
           /\ ~Contains(j.fileName, str(data[r]["compressionLevel"]))
           /\ \/ j.compressionLevelApplied = "recommended"
              \/ DOMAIN j # DOMAIN SuccessResponse(r, <<>>).json

(***************************************************************************)
(* C6: the wait for the tool is bounded: every request that has invoked    *)
(* the tool eventually returns, also when the child never exits.           *)
(***************************************************************************)
C6_BoundedWait ==
    \A r \in Req : (pc[r] = "wait") ~> Returned(r)

(***************************************************************************)
(* C7: after an exit with code 0, the response (fixed before the cleanup)  *)
(* is a success whose body decodes to exactly the bytes at the output      *)
(* path, with the original size taken from the decoded input's length and  *)
(* the compressed size from the output's length, also when the output is   *)
(* the larger of the two.                                                  *)
(***************************************************************************)
C7_OutputReturnedAsIs ==
    \A r \in Req :
        (ToolSucceeded(r) /\ pc[r] = "unlink_in") =>
            LET found == fs[temp_output_path[r]].data
                sent == b64decode(data[r]["pdfFileBase64"]).bytes
                j == response[r].json
            IN  /\ response[r].status = 200
                /\ b64decode(j.body) = [ok |-> TRUE, bytes |-> found]
                /\ j.originalSize = KiloBytes(Len(sent))
                /\ j.compressedSize = KiloBytes(Len(found))

C7_Witness ==
    \E r \in Req :
        /\ ToolSucceeded(r) /\ pc[r] = "unlink_in"
        /\ response[r].status = 200
        /\ Len(fs[temp_output_path[r]].data) > Len(pdf_bytes[r])
        /\ Len(pdf_bytes[r]) > 0
        /\ response[r].json.compressedSize[1] > response[r].json.originalSize[1]

(***************************************************************************)
(* C8 as stated: under any interleaving the temporary paths of two live    *)
(* requests (requests whose handler has started and not yet returned) are  *)
(* different paths.                                                        *)
(***************************************************************************)
C8_LivePathsDistinct ==
    \A r1, r2 \in Req :
        (r1 # r2 /\ Live(r1) /\ Live(r2)) => Created(r1) \cap Created(r2) = {}

(***************************************************************************)
(* C8, amended: requests share no file.  The files two live requests hold  *)
(* (created and not yet unlinked by them) are different files; a request's *)
(* child reads and writes only the files that request created; a request   *)
(* unlinks only files it created; and a file a live request holds is on    *)
(* storage, with the input bytes its request wrote, until that request     *)
(* unlinks it.  (A path is free for another request as soon as its owner   *)
(* has unlinked it, while the owner is still in its finally block.)        *)
(***************************************************************************)
C8_NoSharedFiles ==
    /\ \A r1, r2 \in Req :
         (r1 # r2 /\ Live(r1) /\ Live(r2)) => Held(r1) \cap Held(r2) = {}
    /\ \A r \in Req :
         /\ \A i \in Indexes(r, "tool_read") : log[r][i].path = temp_input_pdf[r]
         /\ \A i \in Indexes(r, "tool_write") : log[r][i].path = temp_output_pdf[r]
         /\ \A i \in Indexes(r, "unlink") : log[r][i].path \in Created(r)
         /\ Live(r) => \A p \in Held(r) : fs[p].exists
         /\ (pc[r] \in {"create_out", "launch", "wait", "check"}) =>
                fs[temp_input_pdf[r]].data = pdf_bytes[r]

C8_Witness ==
    \E r1, r2 \in Req :
        /\ r1 # r2
        /\ pc[r1] = "unlink_out" /\ Unlinked(r1, temp_input_pdf[r1])
        /\ Indexes(r1, "tool_write") # {}
        /\ pc[r2] = "check"
        /\ temp_input_pdf[r2] = temp_input_pdf[r1]
        /\ Cardinality(Held(r1) \cup Held(r2)) = 3

(***************************************************************************)
(* C9: the steps of one request come in a fixed order: the tool is invoked *)
(* at most once, and only after both files were created and closed, with   *)
(* the input bytes on storage; the output path is read only after the tool *)
(* exited with code 0; and a file is unlinked only after the response was  *)
(* determined (after the read, on success).                                *)
(***************************************************************************)
C9_StepOrder ==
    \A r \in Req :
        /\ Cardinality(Indexes(r, "invoke")) <= 1
        /\ \A i \in Indexes(r, "invoke") :
              \E a \in 1..(i - 1) : \E b \in (a + 1)..(i - 1) :
              \E c \in (b + 1)..(i - 1) : \E d \in (c + 1)..(i - 1) :
                    /\ log[r][a] = Event("create", temp_input_path[r])
                    /\ log[r][b] = Event("close", temp_input_path[r])
                    /\ log[r][c] = Event("create", temp_output_path[r])
                    /\ log[r][d] = Event("close", temp_output_path[r])
        /\ pc[r] = "wait" =>
              /\ fs[temp_input_path[r]] = [exists |-> TRUE, data |-> pdf_bytes[r]]
              /\ fs[temp_output_path[r]].exists
        /\ \A i \in Indexes(r, "read") :
              /\ Before(r, "exit", i)
              /\ result[r].returncode = 0
        /\ \A i \in Indexes(r, "unlink") :
              /\ Before(r, "respond", i)
              /\ ToolSucceeded(r) => Before(r, "read", i)
        /\ \A i \in Indexes(r, "respond") :
              \A j \in Indexes(r, "read") : j < i

C9_Witness ==
    \E r \in Req :
        /\ Returned(r)
        /\ Indexes(r, "invoke") # {} /\ Indexes(r, "read") # {}
        /\ Cardinality(Indexes(r, "unlink")) = 2

(***************************************************************************)
(* C10: in the argument list handed to the tool the input file path is the *)
(* last element, every tier-specific switch standing before it.            *)
(***************************************************************************)
C10_InputPathLast ==
    \A r \in Req :
        result[r].state # "none" =>
            LET cmd == ghostscript_command[r]
                base == BaseCommand(temp_input_path[r], temp_output_path[r])
                common == {base[k] : k \in 1..Len(base)}
            IN  /\ cmd[Len(cmd)] = InputArg(temp_input_path[r])
                /\ \A i \in InputIndexes(cmd), k \in 1..Len(cmd) :
                      cmd[k] \notin common => k < i
====
